---------------------------- MODULE Spec2Model ----------------------------
(***************************************************************************)
(* A model of src/MyStrategy.py: the per-tick strategy entry point         *)
(* MyStrategy.move, the unit tracker with its grid index and BFS           *)
(* clustering, the action queue with its freeze timer, and the two         *)
(* decision makers.                                                        *)
(*                                                                         *)
(* Conventions.                                                            *)
(*  - Coordinates are integers (the source's floats restricted to whole    *)
(*    numbers), so x // CELL_SIZE is x \div CELL_SIZE and squared          *)
(*    distances are exact.                                                 *)
(*  - A Python dict is an insertion-ordered sequence: self.vehicles is a   *)
(*    sequence of Vehicle records with distinct ids, and every cell of     *)
(*    self.cells is a sequence of ids.  The Vehicle object stored in a     *)
(*    cell or in a cluster is the object stored in self.vehicles, so an    *)
(*    id stands for it.  self.cells is a defaultdict: a key whose dict is  *)
(*    empty and a key never touched read the same everywhere in the        *)
(*    source, so only the non-empty cells are kept.                        *)
(*  - An uncaught Python exception ends the call to move() at the point    *)
(*    where it is raised and is recorded in fault; the state written       *)
(*    before it stays written.  The runner does not catch it, so a         *)
(*    faulted engine takes no further tick.                                *)
(*  - The fields groups, selected and remaining_attack_cooldown_ticks of   *)
(*    a Vehicle are written by update_vehicles and read nowhere; they are  *)
(*    left out.                                                            *)
(***************************************************************************)
EXTENDS Integers, Sequences, FiniteSets, TLC

VARIABLES
    vehicles,           \* UnitTracker.vehicles: the unit table
    cells,              \* UnitTracker.cells: the grid index of opponent units
    clusters,           \* UnitTracker.clusters
    moving_vehicles,    \* UnitTracker.moving_vehicles
    action_queue,       \* MyStrategy.action_queue
    next_action_tick,   \* MyStrategy.next_action_tick: the freeze timer
    me,                 \* MyStrategy.me: the Player of the current tick
    world,              \* MyStrategy.world: the snapshot of the current tick
    move_,              \* MyStrategy.move_: the Move the current tick fills
    fault,              \* the exception that ended the engine, or NoFault
    executed,           \* history: the actions released so far, with ticks
    decisions,          \* history: the decision makers offered this tick
    scheduled           \* history: how many actions were ever enqueued

vars == <<vehicles, cells, clusters, moving_vehicles, action_queue,
          next_action_tick, me, world, move_, fault, executed, decisions,
          scheduled>>

-----------------------------------------------------------------------------
(* Program constants *)

VEHICLE_TYPES == {"ARRV", "FIGHTER", "HELICOPTER", "IFV", "TANK"}
AERIAL_TYPES == {"FIGHTER", "HELICOPTER"}
GROUND_TYPES == {"ARRV", "IFV", "TANK"}

CELL_COUNT == 64
CELL_SIZE == 1024 \div CELL_COUNT
CELL_SIZE_SQUARED == CELL_SIZE * CELL_SIZE

\* A scan of the four edge neighbours only, without the diagonals
SCAN_RANGE_Edges == << <<-1, 0>>, <<0, -1>>, <<0, 0>>, <<0, 1>>, <<1, 0>> >>

\* product(SCAN_RANGE, SCAN_RANGE), in the order itertools.product yields it
SCAN_RANGE == << <<-1, -1>>, <<-1, 0>>, <<-1, 1>>,
                 << 0, -1>>, << 0, 0>>, << 0, 1>>,
                 << 1, -1>>, << 1, 0>>, << 1, 1>> >>
SQUARE_SIZE == 128
FREEZE_TICKS == 5

\* The two player ids of a game: me.id and world.get_opponent_player().id.
MyId == "me"
opponent_player_id == "opponent"

NoFault == "none"

-----------------------------------------------------------------------------
(* Arithmetic helpers *)

Abs(n) == IF n < 0 THEN -n ELSE n

Sq(n) == n * n

\* Unit.get_squared_distance_to_unit, on two Vehicle records
get_squared_distance_to_unit(a, b) == Sq(a.x - b.x) + Sq(a.y - b.y)

-----------------------------------------------------------------------------
(* Python dict, as an insertion-ordered sequence of records keyed by id *)

DictKeys(d) == {d[n].id : n \in 1..Len(d)}

DictGet(d, k) == d[CHOOSE n \in 1..Len(d) : d[n].id = k]

\* d[v.id] = v: an existing key keeps its place, a new key goes last
DictSet(d, v) ==
    IF v.id \in DictKeys(d)
    THEN [n \in 1..Len(d) |-> IF d[n].id = v.id THEN v ELSE d[n]]
    ELSE Append(d, v)

\* d.pop(k, None)
DictPop(d, k) == SelectSeq(d, LAMBDA e : e.id # k)

SeqRemove(s, k) == SelectSeq(s, LAMBDA e : e # k)

SeqToSet(s) == {s[n] : n \in 1..Len(s)}

-----------------------------------------------------------------------------
(* UnitTracker: the grid index *)

\* UnitTracker.get_cell_index
get_cell_index(vehicle) == <<vehicle.x \div CELL_SIZE, vehicle.y \div CELL_SIZE>>

\* self.cells[key], read
CellAt(cs, key) == IF key \in DOMAIN cs THEN cs[key] ELSE <<>>

\* self.cells[key] becomes ids
CellPut(cs, key, ids) ==
    LET dom == IF ids = <<>> THEN (DOMAIN cs) \ {key} ELSE (DOMAIN cs) \cup {key}
    IN  [k \in dom |-> IF k = key THEN ids ELSE cs[k]]

\* A tracker that forgets the pop of update_vehicles: the entry of the cell
\* a unit leaves stays behind
CellPopKeeps(cs, vehicle) == cs

\* self.get_cell(vehicle).pop(vehicle.id, None)
CellPop(cs, vehicle) ==
    LET key == get_cell_index(vehicle)
    IN  CellPut(cs, key, SeqRemove(CellAt(cs, key), vehicle.id))

\* self.get_cell(vehicle)[vehicle.id] = vehicle
CellInsert(cs, vehicle) ==
    LET key == get_cell_index(vehicle)
        old == CellAt(cs, key)
    IN  IF vehicle.id \in SeqToSet(old) THEN cs
        ELSE CellPut(cs, key, Append(old, vehicle.id))

\* An add_new_vehicles that puts the units of both players into the grid
AddVehicleIndexed(t, vehicle) ==
    [t EXCEPT !.vehicles = DictSet(t.vehicles, vehicle),
              !.cells = CellInsert(t.cells, vehicle)]

\* One iteration of the loop of UnitTracker.add_new_vehicles
AddVehicle(t, vehicle) ==
    [t EXCEPT !.vehicles = DictSet(t.vehicles, vehicle),
              !.cells = IF vehicle.player_id = opponent_player_id
                        THEN CellInsert(t.cells, vehicle)
                        ELSE t.cells]

\* UnitTracker.add_new_vehicles, on the tracker t = [vehicles, cells, ...]
RECURSIVE add_new_vehicles(_, _)
add_new_vehicles(t, new_vehicles) ==
    IF new_vehicles = <<>> THEN t
    ELSE add_new_vehicles(AddVehicle(t, Head(new_vehicles)), Tail(new_vehicles))

\* An update_vehicles that puts every updated unit back into the grid
ReinsertAny(cs, vehicle) == CellInsert(cs, vehicle)

\* The grid bookkeeping that ends an iteration of update_vehicles for a
\* unit that is still alive: the opponent's units go back into the grid.
Reinsert(cs, vehicle) ==
    IF vehicle.player_id = opponent_player_id
    THEN CellInsert(cs, vehicle)
    ELSE cs

\* A tracker that never takes the removal branch of update_vehicles
IsRemovalNever(update) == FALSE

\* Whether the update of an iteration of update_vehicles is a removal
IsRemoval(update) == update.durability = 0

\* The body of an iteration of update_vehicles once `vehicle` was looked up
UpdateTracked(t, update, vehicle, popped) ==
    IF IsRemoval(update)
    THEN [t EXCEPT !.vehicles = DictPop(t.vehicles, update.id),
                   !.cells = popped]
    ELSE [t EXCEPT !.vehicles =
                       DictSet(t.vehicles,
                               [vehicle EXCEPT !.x = update.x, !.y = update.y,
                                               !.durability = update.durability]),
                   !.cells =
                       Reinsert(popped,
                                [vehicle EXCEPT !.x = update.x, !.y = update.y,
                                                !.durability = update.durability]),
                   !.moving_vehicles =
                       IF Abs(vehicle.x - update.x) > 0 \/ Abs(vehicle.y - update.y) > 0
                       THEN @ \cup {vehicle.id} ELSE @]

\* An update_vehicles that skips the update of an id it does not track
ApplyUpdateIgnoring(t, update) ==
    IF update.id \notin DictKeys(t.vehicles)
    THEN t
    ELSE UpdateTracked(t, update, DictGet(t.vehicles, update.id),
                       CellPop(t.cells, DictGet(t.vehicles, update.id)))

\* One iteration of the loop of UnitTracker.update_vehicles; the lookup
\* self.vehicles[update.id] raises KeyError for an id that is not tracked.
ApplyUpdate(t, update) ==
    IF update.id \notin DictKeys(t.vehicles)
    THEN [t EXCEPT !.fault = "KeyError"]
    ELSE UpdateTracked(t, update, DictGet(t.vehicles, update.id),
                       CellPop(t.cells, DictGet(t.vehicles, update.id)))

RECURSIVE UpdateLoop(_, _)
UpdateLoop(t, updates) ==
    IF updates = <<>> \/ t.fault # NoFault THEN t
    ELSE UpdateLoop(ApplyUpdate(t, Head(updates)), Tail(updates))

\* UnitTracker.update_vehicles
update_vehicles(t, vehicle_updates) ==
    UpdateLoop([t EXCEPT !.moving_vehicles = {}], vehicle_updates)

-----------------------------------------------------------------------------
(* UnitTracker: clustering *)

SetMin(S) == CHOOSE m \in S : \A n \in S : m <= n

SeqSum(s) == LET RECURSIVE Sum(_)
                 Sum(n) == IF n = 0 THEN 0 ELSE s[n] + Sum(n - 1)
             IN  Sum(Len(s))

\* UnitTracker.get_minimum_squared_distance, between the units of two cells
get_minimum_squared_distance(vs, cs, ij1, ij2) ==
    SetMin({get_squared_distance_to_unit(DictGet(vs, id1), DictGet(vs, id2)) :
                id1 \in SeqToSet(cs[ij1]), id2 \in SeqToSet(cs[ij2])})

\* A merge test that looks only at neighbours in columns to the right of or
\* level with the cell
JoinsForward(vs, cs, remaining, ij, next) ==
    /\ next \in remaining
    /\ next[1] >= ij[1]
    /\ get_minimum_squared_distance(vs, cs, ij, next) < CELL_SIZE_SQUARED

\* A merge test of cell adjacency alone, without the distance test
JoinsAdjacent(vs, cs, remaining, ij, next) == next \in remaining

\* The merge test of UnitTracker.bfs: the neighbour is still unvisited and
\* its closest unit is strictly closer than CELL_SIZE to one of this cell's.
Joins(vs, cs, remaining, ij, next) ==
    /\ next \in remaining
    /\ get_minimum_squared_distance(vs, cs, ij, next) < CELL_SIZE_SQUARED

\* The neighbour scan of UnitTracker.bfs for the cell ij, from the n-th
\* offset of SCAN_RANGE on; b = [cells, queue] as the loop has them.
RECURSIVE Scan(_, _, _, _, _)
Scan(vs, cs, b, ij, n) ==
    IF n > Len(SCAN_RANGE) THEN b
    ELSE Scan(vs, cs,
              IF Joins(vs, cs, b.cells, ij,
                       <<ij[1] + SCAN_RANGE[n][1], ij[2] + SCAN_RANGE[n][2]>>)
              THEN [cells |-> b.cells \ {<<ij[1] + SCAN_RANGE[n][1],
                                           ij[2] + SCAN_RANGE[n][2]>>},
                    queue |-> Append(b.queue, <<ij[1] + SCAN_RANGE[n][1],
                                                ij[2] + SCAN_RANGE[n][2]>>)]
              ELSE b,
              ij, n + 1)

RECURSIVE BfsLoop(_, _, _, _)
BfsLoop(vs, cs, b, out) ==
    IF b.queue = <<>> THEN [vehicles |-> out, cells |-> b.cells]
    ELSE BfsLoop(vs, cs,
                 Scan(vs, cs, [cells |-> b.cells, queue |-> Tail(b.queue)],
                      Head(b.queue), 1),
                 out \o CellAt(cs, Head(b.queue)))

\* UnitTracker.bfs from the seed cell ij: the units it yields, in order, and
\* the set `cells` as it leaves it
bfs(vs, cs, remaining, ij) ==
    BfsLoop(vs, cs, [cells |-> remaining, queue |-> <<ij>>], <<>>)

\* statistics.mean, as the exact fraction num / den
mean(values) == [num |-> SeqSum(values), den |-> Len(values)]

\* Cluster(vehicles, mean of x, mean of y)
Cluster(vs, ids) ==
    [vehicles |-> ids,
     x |-> mean([n \in 1..Len(ids) |-> DictGet(vs, ids[n]).x]),
     y |-> mean([n \in 1..Len(ids) |-> DictGet(vs, ids[n]).y])]

\* cells.pop() takes an arbitrary element of a set: the first cell of the
\* priority list `order` that is still in the set
Pop(remaining, order) ==
    order[SetMin({n \in 1..Len(order) : order[n] \in remaining})]

\* What one pass of the while loop of split_opponent_vehicles yields, given
\* r, the result of its bfs
Yield(vs, r, out) ==
    IF r.vehicles # <<>> THEN Append(out, Cluster(vs, r.vehicles)) ELSE out

RECURSIVE SplitLoop(_, _, _, _, _)
RECURSIVE SplitStep(_, _, _, _, _)
SplitLoop(vs, cs, remaining, order, out) ==
    IF remaining = {} THEN out
    ELSE SplitStep(vs, cs, order, out,
                   bfs(vs, cs, remaining \ {Pop(remaining, order)},
                       Pop(remaining, order)))

SplitStep(vs, cs, order, out, r) ==
    SplitLoop(vs, cs, r.cells, order, Yield(vs, r, out))

\* UnitTracker.split_opponent_vehicles
split_opponent_vehicles(vs, cs, order) ==
    SplitLoop(vs, cs, {c \in DOMAIN cs : cs[c] # <<>>}, order, <<>>)

\* An unstable sort: c goes before the clusters of its own size
InsertBeforeEqual(prefix, c) ==
    LET keep == {n \in 1..Len(prefix) : Len(prefix[n].vehicles) > Len(c.vehicles)}
        k == IF keep = {} THEN 0 ELSE CHOOSE n \in keep : \A m \in keep : m <= n
    IN  SubSeq(prefix, 1, k) \o <<c>> \o SubSeq(prefix, k + 1, Len(prefix))

\* Where sorted(..., reverse=True) puts c among the already sorted prefix:
\* behind every cluster that is at least as large
InsertBySize(prefix, c) ==
    LET keep == {n \in 1..Len(prefix) : Len(prefix[n].vehicles) >= Len(c.vehicles)}
        k == IF keep = {} THEN 0 ELSE CHOOSE n \in keep : \A m \in keep : m <= n
    IN  SubSeq(prefix, 1, k) \o <<c>> \o SubSeq(prefix, k + 1, Len(prefix))

\* sorted(..., key=len(cluster.vehicles), reverse=True): stable, so equal
\* sizes keep the order of discovery
RECURSIVE SortedBySize(_)
SortedBySize(cl) ==
    IF cl = <<>> THEN <<>>
    ELSE InsertBySize(SortedBySize(SubSeq(cl, 1, Len(cl) - 1)), cl[Len(cl)])

\* UnitTracker.update_clusters
update_clusters(vs, cs, order) == SortedBySize(split_opponent_vehicles(vs, cs, order))

\* The priority lists cells.pop() may follow: the orderings of the cells
SeedOrders(cs) ==
    LET S == DOMAIN cs
    IN  {o \in [1..Cardinality(S) -> S] : \A a, b \in 1..Cardinality(S) : a # b => o[a] # o[b]}

-----------------------------------------------------------------------------
(* MyStrategy: the deferred actions and the queue *)

None == "None"

\* An Optional[float]: NoValue is None, Some(v) a number
NoValue == <<>>

Some(v) == <<v>>

\* A fresh Move, as the runner hands it to move() every tick
NewMove ==
    [action |-> None, group |-> 0, left |-> 0, top |-> 0, right |-> 0,
     bottom |-> 0, x |-> 0, y |-> 0, factor |-> 0, max_speed |-> 0,
     vehicle_type |-> None, vehicle_id |-> -1]

\* The Game of a match: the configuration the source reads.  Vision factors
\* are in tenths.
game ==
    [world_width |-> 1024, world_height |-> 1024,
     forest_terrain_vision_factor |-> 8, plain_terrain_vision_factor |-> 10,
     swamp_terrain_vision_factor |-> 10, clear_weather_vision_factor |-> 10,
     cloud_weather_vision_factor |-> 8, rain_weather_vision_factor |-> 6]

\* The closure MyStrategy.select builds
select(vehicle_type, left, top, right, bottom) ==
    [kind |-> "select",
     args |-> [vehicle_type |-> vehicle_type, left |-> left, top |-> top,
               right |-> right, bottom |-> bottom]]

\* MyStrategy.select_vehicle with radius=None: radius = vehicle.radius
select_vehicle(vehicle) ==
    select(vehicle.type,
           Some(vehicle.x - vehicle.radius), Some(vehicle.y - vehicle.radius),
           Some(vehicle.x + vehicle.radius), Some(vehicle.y + vehicle.radius))

\* The closure MyStrategy.scale builds; center is what get_center() returns
scale(center, factor) ==
    [kind |-> "scale", args |-> [x |-> center[1], y |-> center[2], factor |-> factor]]

\* The closure MyStrategy.go builds; offset is what get_offset() returns
go(offset, max_speed) ==
    [kind |-> "go", args |-> [x |-> offset[1], y |-> offset[2], max_speed |-> max_speed]]

\* The closure MyStrategy.nuclear_strike builds
nuclear_strike(vehicle_id, point) ==
    [kind |-> "nuclear_strike",
     args |-> [vehicle_id |-> vehicle_id, x |-> point[1], y |-> point[2]]]

\* Vector.zero()
Vector_zero == <<0, 0>>

\* Calling a queued closure: what its wrapper() writes into self.move_
Call(action, mv) ==
    LET a == action.args
    IN  CASE action.kind = "select" ->
                [mv EXCEPT !.action = "CLEAR_AND_SELECT",
                           !.left = IF a.left = NoValue THEN 0 ELSE a.left[1],
                           !.top = IF a.top = NoValue THEN 0 ELSE a.top[1],
                           !.right = IF a.right = NoValue THEN game.world_width
                                     ELSE a.right[1],
                           !.bottom = IF a.bottom = NoValue THEN game.world_height
                                      ELSE a.bottom[1],
                           !.vehicle_type = IF a.vehicle_type # None
                                            THEN a.vehicle_type ELSE @]
          [] action.kind = "scale" ->
                [mv EXCEPT !.action = "SCALE", !.x = a.x, !.y = a.y,
                           !.factor = a.factor]
          [] action.kind = "go" ->
                [mv EXCEPT !.action = "MOVE", !.x = a.x, !.y = a.y,
                           !.max_speed = IF a.max_speed # NoValue THEN a.max_speed[1] ELSE @]
          [] action.kind = "nuclear_strike" ->
                [mv EXCEPT !.action = "TACTICAL_NUCLEAR_STRIKE", !.x = a.x,
                           !.y = a.y, !.vehicle_id = a.vehicle_id]

\* MyStrategy.schedule_action, on q = [action_queue, scheduled].  The entry
\* keeps, beside the closure, its history: seq is the ordinal of the
\* enqueue, tick and by the tick and the decision maker that enqueued it.
schedule_action(q, action, tick, by) ==
    [action_queue |-> Append(q.action_queue,
                             [kind |-> action.kind, args |-> action.args,
                              seq |-> q.scheduled + 1, tick |-> tick, by |-> by]),
     scheduled |-> q.scheduled + 1]

\* deque.pop(): the newest entry instead of the oldest
pop(queue) ==
    [taken |-> queue[Len(queue)], left |-> SubSeq(queue, 1, Len(queue) - 1)]

\* self.action_queue.popleft(): the entry taken and the queue left
popleft(queue) == [taken |-> Head(queue), left |-> Tail(queue)]

\* A gate that opens one tick after next_action_tick
ReleasableLate(next_tick, tick_index) == next_tick < tick_index

\* The gate of MyStrategy.process_action_queue: the freeze timer has expired
Releasable(next_tick, tick_index) == next_tick <= tick_index

\* A release that freezes the queue for one tick only
ReleasedUnfrozen(e, tick_index, p) ==
    [e EXCEPT !.action_queue = p.left,
              !.move_ = Call(p.taken, e.move_),
              !.next_action_tick = tick_index + 1,
              !.executed = Append(@, [seq |-> p.taken.seq, tick |-> tick_index,
                                      kind |-> p.taken.kind, batch |-> p.taken.tick,
                                      by |-> p.taken.by])]

\* The release of process_action_queue: the closure p.taken is called and
\* the freeze timer set.  executed logs it with the tick of the release and
\* the tick (batch) and decision maker of its enqueue.
Released(e, tick_index, p) ==
    [e EXCEPT !.action_queue = p.left,
              !.move_ = Call(p.taken, e.move_),
              !.next_action_tick = tick_index + FREEZE_TICKS,
              !.executed = Append(@, [seq |-> p.taken.seq, tick |-> tick_index,
                                      kind |-> p.taken.kind, batch |-> p.taken.tick,
                                      by |-> p.taken.by])]

\* MyStrategy.process_action_queue, on e = [action_queue, next_action_tick,
\* move_, fault, executed, ...]; the assert raises AssertionError
process_action_queue(e, tick_index, cooldown) ==
    IF Releasable(e.next_action_tick, tick_index)
    THEN IF cooldown # 0
         THEN [e EXCEPT !.fault = "AssertionError"]
         ELSE Released(e, tick_index, popleft(e.action_queue))
    ELSE e

-----------------------------------------------------------------------------
(* The decision makers *)

\* UnitTracker.my_vehicles, in the order the dict yields them
my_vehicles(vs) == SelectSeq(vs, LAMBDA v : v.player_id = MyId)

\* The two actions SpreadOutDecisionMaker.move enqueues for the vehicle
\* random.choice drew
SpreadOut_batch(q, tick, x, y) ==
    schedule_action(
        schedule_action(q,
            select(None,
                   Some(IF x < 512 THEN x ELSE x - SQUARE_SIZE),
                   Some(IF y < 512 THEN y ELSE y - SQUARE_SIZE),
                   Some(IF x < 512 THEN x + SQUARE_SIZE ELSE x),
                   Some(IF y < 512 THEN y + SQUARE_SIZE ELSE y)),
            tick, "SpreadOut"),
        scale(<<x, y>>, 10), tick, "SpreadOut")

\* SpreadOutDecisionMaker.move, on q = [action_queue, scheduled]; chosen is
\* the index random.choice draws in list(my_vehicles), which raises
\* IndexError on an empty list.
SpreadOut_move(vs, q, tick, chosen) ==
    IF my_vehicles(vs) = <<>>
    THEN [result |-> "raised", q |-> q, fault |-> "IndexError"]
    ELSE [result |-> "True",
          q |-> SpreadOut_batch(q, tick, my_vehicles(vs)[chosen].x,
                                my_vehicles(vs)[chosen].y),
          fault |-> NoFault]

\* world.terrain_by_cell_x_y and world.weather_by_cell_x_y: the static map
\* of the match, here one whose columns cycle through the three types
terrain_by_cell_x_y(i, j) == <<"PLAIN", "FOREST", "SWAMP">>[((i + j) % 3) + 1]

weather_by_cell_x_y(i, j) == <<"CLEAR", "CLOUD", "RAIN">>[((i + j) % 3) + 1]

\* NuclearStrikeDecisionMaker.get_true_vehicle_vision_range, in tenths
get_true_vehicle_vision_range(vehicle) ==
    LET i == vehicle.x \div 32
        j == vehicle.y \div 32
        terrain == terrain_by_cell_x_y(i, j)
        weather == weather_by_cell_x_y(i, j)
    IN  IF vehicle.type \in GROUND_TYPES
        THEN CASE terrain = "FOREST" ->
                      vehicle.vision_range * game.forest_terrain_vision_factor
               [] terrain = "PLAIN" ->
                      vehicle.vision_range * game.plain_terrain_vision_factor
               [] terrain = "SWAMP" ->
                      vehicle.vision_range * game.swamp_terrain_vision_factor
               [] OTHER -> vehicle.vision_range * 10
        ELSE CASE weather = "CLEAR" ->
                      vehicle.vision_range * game.clear_weather_vision_factor
               [] weather = "CLOUD" ->
                      vehicle.vision_range * game.cloud_weather_vision_factor
               [] weather = "RAIN" ->
                      vehicle.vision_range * game.rain_weather_vision_factor
               [] OTHER -> vehicle.vision_range * 10

\* Unit.get_squared_distance_to(cluster.x, cluster.y), as an exact fraction
get_squared_distance_to(vehicle, cluster) ==
    [num |-> Sq(vehicle.x * cluster.x.den - cluster.x.num)
             + Sq(vehicle.y * cluster.y.den - cluster.y.num),
     den |-> cluster.x.den * cluster.y.den]

FracLess(a, b) == a.num * b.den < b.num * a.den

\* min(..., key): the index of the first of the keys (fractions) that no
\* other key is less than
FirstMin(keys) ==
    CHOOSE n \in 1..Len(keys) :
        /\ \A m \in 1..Len(keys) : ~FracLess(keys[m], keys[n])
        /\ \A m \in 1..(n - 1) : FracLess(keys[n], keys[m])

\* The reachability test with >= in place of >
ReachableOrEqual(vehicle, opponent_vehicle) ==
    Sq(get_true_vehicle_vision_range(vehicle))
        >= 100 * get_squared_distance_to_unit(vehicle, opponent_vehicle)

\* The reachability test of NuclearStrikeDecisionMaker.move:
\* get_true_vehicle_vision_range(vehicle) > vehicle.get_distance_to_unit(other),
\* both sides non-negative, compared by their squares (the range in tenths)
Reachable(vehicle, opponent_vehicle) ==
    Sq(get_true_vehicle_vision_range(vehicle))
        > 100 * get_squared_distance_to_unit(vehicle, opponent_vehicle)

\* min(cluster.vehicles, key=squared distance to vehicle)
ClosestVehicle(vehicle, others) ==
    others[FirstMin([n \in 1..Len(others) |->
              [num |-> get_squared_distance_to_unit(vehicle, others[n]), den |-> 1]])]

\* min(clusters, key=squared distance of vehicle to the centre)
ClosestCluster(cl, vehicle) ==
    cl[FirstMin([n \in 1..Len(cl) |-> get_squared_distance_to(vehicle, cl[n])])]

\* The Vehicle objects a cluster holds
Members(vs, cluster) ==
    [n \in 1..Len(cluster.vehicles) |-> DictGet(vs, cluster.vehicles[n])]

\* The candidate of one own vehicle: its closest cluster and the closest
\* vehicle of that cluster
Candidate(vs, vehicle, cluster) ==
    [vehicle |-> vehicle,
     opponent_vehicle |-> ClosestVehicle(vehicle, Members(vs, cluster)),
     cluster |-> cluster]

\* possible_strikes.append(...) if the opponent vehicle is reachable
Keep(c) == IF Reachable(c.vehicle, c.opponent_vehicle) THEN <<c>> ELSE <<>>

\* The loop of NuclearStrikeDecisionMaker.move that fills possible_strikes
RECURSIVE PossibleStrikes(_, _, _)
PossibleStrikes(vs, cl, mine) ==
    IF mine = <<>> THEN <<>>
    ELSE Keep(Candidate(vs, Head(mine), ClosestCluster(cl, Head(mine))))
             \o PossibleStrikes(vs, cl, Tail(mine))

\* A choice of the first feasible strike, whatever its cluster
BestStrikeFirst(possible_strikes) == possible_strikes[1]

\* max(possible_strikes, key) with the key (len(cluster.vehicles),
\* -squared distance of the target to the centre), compared as Python
\* compares tuples: the first strike no other is greater than
BestStrike(possible_strikes) ==
    LET size == [n \in 1..Len(possible_strikes) |->
                     Len(possible_strikes[n].cluster.vehicles)]
        off == [n \in 1..Len(possible_strikes) |->
                    get_squared_distance_to(possible_strikes[n].opponent_vehicle,
                                            possible_strikes[n].cluster)]
        Greater(a, b) == \/ size[a] > size[b]
                         \/ size[a] = size[b] /\ FracLess(off[a], off[b])
    IN  possible_strikes[CHOOSE n \in 1..Len(possible_strikes) :
                             /\ \A m \in 1..Len(possible_strikes) : ~Greater(m, n)
                             /\ \A m \in 1..(n - 1) : Greater(n, m)]

\* The three actions NuclearStrikeDecisionMaker.move enqueues for the
\* strike it chose
Strike_batch(q, tick, best) ==
    schedule_action(
        schedule_action(
            schedule_action(q, select_vehicle(best.vehicle), tick, "NuclearStrike"),
            go(Vector_zero, NoValue), tick, "NuclearStrike"),
        nuclear_strike(best.vehicle.id,
                       <<best.opponent_vehicle.x, best.opponent_vehicle.y>>),
        tick, "NuclearStrike")

\* `if possible_strikes:` and what follows it
Strike(q, tick, possible_strikes) ==
    IF possible_strikes # <<>>
    THEN [result |-> "True", q |-> Strike_batch(q, tick, BestStrike(possible_strikes)),
          fault |-> NoFault]
    ELSE [result |-> "False", q |-> q, fault |-> NoFault]

\* NuclearStrikeDecisionMaker.move, on q = [action_queue, scheduled]
NuclearStrike_move(vs, cl, q, tick, strike_cooldown) ==
    IF strike_cooldown # 0
    THEN [result |-> "False", q |-> q, fault |-> NoFault]
    ELSE IF cl = <<>>
    THEN [result |-> "False", q |-> q, fault |-> NoFault]
    ELSE Strike(q, tick, PossibleStrikes(vs, cl, my_vehicles(vs)))

\* MyStrategy.decision_makers, in the order __init__ lists them
decision_makers == <<"NuclearStrike", "SpreadOut">>

\* decision_maker.move() for the named decision maker
DecisionMaker_move(name, vs, cl, q, tick, strike_cooldown, chosen) ==
    IF name = "NuclearStrike"
    THEN NuclearStrike_move(vs, cl, q, tick, strike_cooldown)
    ELSE SpreadOut_move(vs, q, tick, chosen)

\* A pipeline without the break: the next decision maker is always offered
ClaimedNever(result) == FALSE

\* `if decision_maker.move(): break`
Claimed(result) == result = "True"

\* The log of make_decisions after the n-th decision maker returned r:
\* who was offered the turn, what it returned, how many actions it enqueued
Logged(d, n, r) ==
    [q |-> r.q, fault |-> r.fault,
     decisions |-> Append(d.decisions,
                          [maker |-> decision_makers[n], result |-> r.result,
                           enqueued |-> r.q.scheduled - d.q.scheduled])]

\* MyStrategy.make_decisions from the n-th decision maker on; d = [q, fault,
\* decisions]
RECURSIVE DecideFrom(_, _, _, _, _, _, _)
RECURSIVE DecideNext(_, _, _, _, _, _, _)
DecideFrom(n, d, vs, cl, tick, strike_cooldown, chosen) ==
    IF n > Len(decision_makers) THEN d
    ELSE DecideNext(n, Logged(d, n, DecisionMaker_move(decision_makers[n], vs, cl,
                                                       d.q, tick, strike_cooldown,
                                                       chosen)),
                    vs, cl, tick, strike_cooldown, chosen)

DecideNext(n, d, vs, cl, tick, strike_cooldown, chosen) ==
    IF d.fault # NoFault \/ Claimed(d.decisions[Len(d.decisions)].result) THEN d
    ELSE DecideFrom(n + 1, d, vs, cl, tick, strike_cooldown, chosen)

\* MyStrategy.make_decisions
make_decisions(q, vs, cl, tick, strike_cooldown, chosen) ==
    DecideFrom(1, [q |-> q, fault |-> NoFault, decisions |-> <<>>],
               vs, cl, tick, strike_cooldown, chosen)

-----------------------------------------------------------------------------
(* MyStrategy.move: one tick *)

\* The engine's state as one record
State ==
    [vehicles |-> vehicles, cells |-> cells, clusters |-> clusters,
     moving_vehicles |-> moving_vehicles, action_queue |-> action_queue,
     next_action_tick |-> next_action_tick, me |-> me, world |-> world,
     move_ |-> move_, fault |-> fault, executed |-> executed,
     decisions |-> decisions, scheduled |-> scheduled]

\* A dispatcher that takes the queue for empty on every tick
QueueBusyNever(queue) == FALSE

\* `if not self.strategy.action_queue` and `if self.action_queue`: the test
\* that sends a tick to the queue or to the decision makers
QueueBusy(queue) == queue # <<>>

\* A tracker that never recomputes its clusters
ClusteredNever(t, order) == t

\* The end of UnitTracker.move: the clusters, when the queue is empty.  A
\* KeyError of update_vehicles has ended the call before.
Clustered(t, order) ==
    IF t.fault # NoFault \/ QueueBusy(t.action_queue) THEN t
    ELSE [t EXCEPT !.clusters = update_clusters(t.vehicles, t.cells, order)]

\* UnitTracker.move
UnitTracker_move(e, order) ==
    Clustered(update_vehicles(add_new_vehicles(e, e.world.new_vehicles),
                              e.world.vehicle_updates),
              order)

\* The state once make_decisions has returned d
Decided(e, d) ==
    [e EXCEPT !.action_queue = d.q.action_queue, !.scheduled = d.q.scheduled,
              !.fault = d.fault, !.decisions = d.decisions]

\* make_decisions with every argument MyStrategy.move passes
Decide(e, chosen) ==
    Decided(e, make_decisions(
                   [action_queue |-> e.action_queue, scheduled |-> e.scheduled],
                   e.vehicles, e.clusters, e.world.tick_index,
                   e.me.remaining_nuclear_strike_cooldown_ticks, chosen))

\* The queue processed on the state a decision left, if it left a queue
ThenProcessed(e) ==
    IF e.fault # NoFault \/ e.action_queue = <<>> THEN e
    ELSE process_action_queue(e, e.world.tick_index,
                              e.me.remaining_action_cooldown_ticks)

\* A dispatcher without the else: the queue is processed on the tick that
\* decided as well
DispatchBoth(e, chosen) ==
    IF e.fault # NoFault THEN e
    ELSE IF QueueBusy(e.action_queue)
    THEN process_action_queue(e, e.world.tick_index,
                              e.me.remaining_action_cooldown_ticks)
    ELSE ThenProcessed(Decide(e, chosen))

\* The rest of MyStrategy.move once the trackers have run
Dispatch(e, chosen) ==
    IF e.fault # NoFault THEN e
    ELSE IF QueueBusy(e.action_queue)
    THEN process_action_queue(e, e.world.tick_index,
                              e.me.remaining_action_cooldown_ticks)
    ELSE Decide(e, chosen)

\* MyStrategy.move(me, world, game, move) on the state e: snapshot holds me
\* and world, order is the priority cells.pop() follows and chosen the draw
\* of random.choice.  decisions is the log of this call alone.
MyStrategy_move(e, snapshot, order, chosen) ==
    Dispatch(UnitTracker_move([e EXCEPT !.me = snapshot.me,
                                        !.world = snapshot.world,
                                        !.move_ = NewMove, !.decisions = <<>>],
                              order),
             chosen)

\* world.tick_index of the next call: the runner calls move() once per
\* tick, from tick 0 on
NextTickIndex == world.tick_index + 1

\* The sequences of at most k elements of S, by ascending id: the lists a
\* snapshot may carry
RECURSIVE AscendingSeqs(_, _)
AscendingSeqs(S, k) ==
    IF k = 0 THEN {<<>>}
    ELSE LET shorter == AscendingSeqs(S, k - 1)
         IN  shorter \cup
                 {Append(p[1], p[2]) :
                      p \in {pp \in {q \in shorter : Len(q) = k - 1} \X S :
                                \A n \in 1..Len(pp[1]) : pp[1][n].id < pp[2].id}}

\* A Vehicle as the snapshot's new_vehicles carry it
Vehicle(id, player_id, type, point, durability, vision_range) ==
    [id |-> id, player_id |-> player_id, type |-> type, x |-> point[1],
     y |-> point[2], durability |-> durability, vision_range |-> vision_range,
     radius |-> 2]

\* A VehicleUpdate
VehicleUpdate(id, point, durability) ==
    [id |-> id, x |-> point[1], y |-> point[2], durability |-> durability]

\* The snapshots the runner may hand to the next call under the scenario
\* sc.  new_vehicles are units not tracked so far (tick 0 announces the
\* deployment, up to sc.deployed units); vehicle_updates carry any id.
Snapshots(sc) ==
    {[me |-> [remaining_action_cooldown_ticks |-> a,
              remaining_nuclear_strike_cooldown_ticks |-> n],
      world |-> [tick_index |-> NextTickIndex, new_vehicles |-> nv,
                 vehicle_updates |-> vu]] :
        a \in sc.action_cooldowns, n \in sc.strike_cooldowns,
        nv \in AscendingSeqs({v \in sc.new_vehicles : v.id \notin DictKeys(vehicles)},
                             IF NextTickIndex = 0 THEN sc.deployed ELSE sc.max_new),
        vu \in AscendingSeqs(sc.vehicle_updates,
                             IF NextTickIndex = 0 THEN 0 ELSE sc.max_updates)}

\* The engine's variables become the record e
Becomes(e) ==
    /\ vehicles' = e.vehicles
    /\ cells' = e.cells
    /\ clusters' = e.clusters
    /\ moving_vehicles' = e.moving_vehicles
    /\ action_queue' = e.action_queue
    /\ next_action_tick' = e.next_action_tick
    /\ me' = e.me
    /\ world' = e.world
    /\ move_' = e.move_
    /\ fault' = e.fault
    /\ executed' = e.executed
    /\ decisions' = e.decisions
    /\ scheduled' = e.scheduled

\* The units tracked once the snapshot's deltas are applied
TrackedAfter(snapshot) ==
    update_vehicles(add_new_vehicles(State, snapshot.world.new_vehicles),
                    snapshot.world.vehicle_updates)

\* The draws random.choice can make among the own vehicles of vs
Draws(vs) == 1..(IF my_vehicles(vs) = <<>> THEN 1 ELSE Len(my_vehicles(vs)))

\* The choices the call leaves open: the order of cells.pop() and the draw
Choices(t) == SeedOrders(t.cells) \X Draws(t.vehicles)

\* One call of MyStrategy.move under the scenario sc
Tick(sc) ==
    /\ fault = NoFault
    /\ NextTickIndex <= sc.max_tick
    /\ \E snapshot \in Snapshots(sc) :
           \E c \in Choices(TrackedAfter(snapshot)) :
               Becomes(MyStrategy_move(State, snapshot, c[1], c[2]))

\* A tick that finds the queue empty: the decision makers are offered it
DecisionTick(sc) == action_queue = <<>> /\ Tick(sc)

\* A tick that finds actions queued: the next one is released if possible
QueueTick(sc) == action_queue # <<>> /\ Tick(sc)

\* The state after MyStrategy.__init__.  me, world and move_ are None until
\* the first call assigns them and are read by nothing before that; they
\* start as a Player with no cooldown, the empty snapshot that precedes
\* tick 0 and an empty Move.
Init ==
    /\ vehicles = <<>>
    /\ cells = <<>>
    /\ clusters = <<>>
    /\ moving_vehicles = {}
    /\ action_queue = <<>>
    /\ next_action_tick = 0
    /\ me = [remaining_action_cooldown_ticks |-> 0,
             remaining_nuclear_strike_cooldown_ticks |-> 0]
    /\ world = [tick_index |-> -1, new_vehicles |-> <<>>, vehicle_updates |-> <<>>]
    /\ move_ = NewMove
    /\ fault = NoFault
    /\ executed = <<>>
    /\ decisions = <<>>
    /\ scheduled = 0

-----------------------------------------------------------------------------
(* Scenarios: the bounded inputs of each specification *)

MaxTick == 12
MaxCooldown == 1
GridTicks == 1
NumPoints == 5
StrikeTicks == 1
ReclusterTicks == 7
ChoiceTicks == 1
LiveTicks == 17

\* The engine over a long run of ticks: one own tank with a vision range of
\* 10 and one opponent tank, 7 or 10 away from it; a snapshot announces at
\* most one unit and carries at most one update
EnginePoints == {<<8, 15>>, <<8, 18>>}

EngineScenario ==
    [new_vehicles |->
         {Vehicle(1, MyId, "TANK", <<8, 8>>, 1, 10)}
             \cup {Vehicle(2, opponent_player_id, "TANK", p, 1, 10) : p \in EnginePoints},
     vehicle_updates |->
         {VehicleUpdate(1, <<8, 8>>, 0), VehicleUpdate(2, <<8, 15>>, 0)}
             \cup {VehicleUpdate(2, p, 1) : p \in EnginePoints},
     deployed |-> 1, max_new |-> 1, max_updates |-> 1,
     action_cooldowns |-> 0..MaxCooldown, strike_cooldowns |-> 0..MaxCooldown,
     max_tick |-> MaxTick]

Next == DecisionTick(EngineScenario) \/ QueueTick(EngineScenario)

Spec == Init /\ [][Next]_vars

\* The grid: the first NumPoints of these positions.  (12,12) and (0,0)
\* share a cell and are more than CELL_SIZE apart; (12,12), (20,12) and
\* (32,12) are a chain over three cells of a row; (20,20) is diagonal to
\* (12,12); (36,12) is exactly CELL_SIZE from (20,12).
PointList ==
    << <<12, 12>>, <<20, 12>>, <<32, 12>>, <<20, 20>>, <<0, 0>>, <<36, 12>>,
       <<4, 28>>, <<28, 28>> >>

GridPoints == {PointList[n] : n \in 1..NumPoints}

\* The tracker: a deployment of up to three opponent units and one own
\* unit over the grid, then one update a tick
GridScenario ==
    [new_vehicles |->
         {Vehicle(1, MyId, "TANK", PointList[1], 1, 10)}
             \cup {Vehicle(id, opponent_player_id, "TANK", p, 1, 10) :
                       id \in 2..4, p \in GridPoints},
     vehicle_updates |->
         {VehicleUpdate(1, p, d) : p \in {PointList[1], PointList[2]}, d \in 0..1}
             \cup {VehicleUpdate(id, p, d) : id \in 2..4, p \in GridPoints, d \in 0..1},
     deployed |-> 4, max_new |-> 0, max_updates |-> 1,
     action_cooldowns |-> {0}, strike_cooldowns |-> {0},
     max_tick |-> GridTicks]

NextGrid == DecisionTick(GridScenario) \/ QueueTick(GridScenario)

SpecGrid == Init /\ [][NextGrid]_vars

\* The strike: up to two own units (a tank or a fighter each, vision range
\* 10) in three columns of the map, where the vision factor of a tank is
\* 1.0, 0.8, 1.0 and that of a fighter 1.0, 0.8, 0.6, and up to two
\* opponent units at distances 9, 10, 7, 8 and 6 below these positions
StrikeOwnPoints == {<<8, 8>>, <<40, 8>>, <<72, 8>>}

StrikeOpponentPoints == {<<8, 17>>, <<8, 18>>, <<40, 15>>, <<40, 16>>, <<72, 14>>}

StrikeScenario ==
    [new_vehicles |->
         {Vehicle(id, MyId, type, p, 1, 10) :
              id \in 1..2, type \in {"TANK", "FIGHTER"}, p \in StrikeOwnPoints}
             \cup {Vehicle(id, opponent_player_id, "TANK", p, 1, 10) :
                       id \in 3..4, p \in StrikeOpponentPoints},
     vehicle_updates |-> {},
     deployed |-> 4, max_new |-> 0, max_updates |-> 0,
     action_cooldowns |-> {0}, strike_cooldowns |-> 0..MaxCooldown,
     max_tick |-> StrikeTicks]

NextStrike == DecisionTick(StrikeScenario) \/ QueueTick(StrikeScenario)

SpecStrike == Init /\ [][NextStrike]_vars

\* Clustering again: a deployment of one own tank and up to three opponent
\* units in a row of three cells; later snapshots may remove unit 3 or move
\* unit 2 out of the row, and the decision after the first batch clusters
\* what is left
ReclusterPoints == {<<12, 12>>, <<20, 12>>, <<32, 12>>}

ReclusterScenario ==
    [new_vehicles |->
         {Vehicle(1, MyId, "TANK", <<12, 12>>, 1, 10)}
             \cup {Vehicle(id, opponent_player_id, "TANK", p, 1, 10) :
                       id \in 2..4, p \in ReclusterPoints},
     vehicle_updates |->
         {VehicleUpdate(3, <<20, 12>>, 0), VehicleUpdate(2, <<20, 20>>, 1)},
     deployed |-> 4, max_new |-> 0, max_updates |-> 1,
     action_cooldowns |-> {0}, strike_cooldowns |-> 0..MaxCooldown,
     max_tick |-> ReclusterTicks]

NextRecluster == DecisionTick(ReclusterScenario) \/ QueueTick(ReclusterScenario)

SpecRecluster == Init /\ [][NextRecluster]_vars

\* The choice of a strike: up to two own tanks (vision range 10; factor 1.0
\* in the column x = 8, 0.8 at (40, 8)) and up to three opponent units, which
\* form one cluster in the column x = 8 and another at (40, 15).  No own
\* position is equally far from two opponent positions.
ChoiceOwnPoints == {<<8, 8>>, <<8, 24>>, <<40, 8>>}

ChoiceOpponentPoints == {<<8, 13>>, <<8, 16>>, <<8, 17>>, <<40, 15>>}

ChoiceScenario ==
    [new_vehicles |->
         {Vehicle(id, MyId, "TANK", p, 1, 10) : id \in 1..2, p \in ChoiceOwnPoints}
             \cup {Vehicle(id, opponent_player_id, "TANK", p, 1, 10) :
                       id \in 3..5, p \in ChoiceOpponentPoints},
     vehicle_updates |-> {},
     deployed |-> 5, max_new |-> 0, max_updates |-> 0,
     action_cooldowns |-> {0}, strike_cooldowns |-> {0},
     max_tick |-> ChoiceTicks]

NextChoice == DecisionTick(ChoiceScenario) \/ QueueTick(ChoiceScenario)

SpecChoice == Init /\ [][NextChoice]_vars

\* The queue under the assumptions of a well-behaved runner: the action
\* cooldown is always zero, no update refers to an unknown unit, and ticks
\* keep coming up to LiveTicks.  One own tank, one opponent tank that may
\* arrive late.
LiveScenario ==
    [new_vehicles |->
         {Vehicle(1, MyId, "TANK", <<8, 8>>, 1, 10)}
             \cup {Vehicle(2, opponent_player_id, "TANK", p, 1, 10) : p \in EnginePoints},
     vehicle_updates |-> {},
     deployed |-> 2, max_new |-> 1, max_updates |-> 0,
     action_cooldowns |-> {0}, strike_cooldowns |-> 0..MaxCooldown,
     max_tick |-> LiveTicks]

NextLive == DecisionTick(LiveScenario) \/ QueueTick(LiveScenario)

\* The runner hands the engine the snapshot of the next tick: what every
\* step of NextLive does to world, as long as the engine has not failed
\* and ticks are left
NextSnapshot ==
    /\ fault = NoFault
    /\ NextTickIndex <= LiveTicks
    /\ world' \in {snapshot.world : snapshot \in Snapshots(LiveScenario)}

\* The runner calls move() on every tick
SpecLive == Init /\ [][NextLive]_vars /\ WF_world(NextSnapshot)

-----------------------------------------------------------------------------
(* The grid of the tracker *)

\* The cells whose entry holds id, and how often a cell lists it
CellsHolding(id) == {key \in DOMAIN cells : id \in SeqToSet(cells[key])}

Occurrences(key, id) == Cardinality({k \in 1..Len(cells[key]) : cells[key][k] = id})

TrackedOpponents ==
    {n \in 1..Len(vehicles) : vehicles[n].player_id = opponent_player_id}

\* C1: every tracked opponent unit is listed in exactly one grid cell, once,
\* and that cell is (floor(x / CELL_SIZE), floor(y / CELL_SIZE)) of its
\* current position; this holds after every tick, whatever the updates were
GridHoldsEachOpponentOnce ==
    \A n \in TrackedOpponents :
        /\ CellsHolding(vehicles[n].id)
               = {<<vehicles[n].x \div CELL_SIZE, vehicles[n].y \div CELL_SIZE>>}
        /\ \A key \in CellsHolding(vehicles[n].id) : Occurrences(key, vehicles[n].id) = 1

\* An update has moved an opponent unit into another cell: the cluster of
\* the deployment tick still has the unit alone at its old position
OpponentChangedCell ==
    /\ fault = NoFault
    /\ \E n \in TrackedOpponents :
           /\ vehicles[n].id \in moving_vehicles
           /\ \E u \in SeqToSet(world.vehicle_updates) : u.id = vehicles[n].id
           /\ \E c \in 1..Len(clusters) :
                  /\ clusters[c].vehicles = <<vehicles[n].id>>
                  /\ <<clusters[c].x.num \div CELL_SIZE, clusters[c].y.num \div CELL_SIZE>>
                         # <<vehicles[n].x \div CELL_SIZE, vehicles[n].y \div CELL_SIZE>>
                  /\ CellsHolding(vehicles[n].id)
                         = {<<vehicles[n].x \div CELL_SIZE, vehicles[n].y \div CELL_SIZE>>}

\* The ids the world announces as new on this tick
Announced(w) == {w.new_vehicles[n].id : n \in 1..Len(w.new_vehicles)}

\* C2: every tracked unit has durability above zero; an update that carries
\* durability 0 leaves its unit untracked; and an id that is not tracked
\* becomes tracked only on a tick that announces it as a new unit
TrackedUnitsAreAlive ==
    /\ [](\A n \in 1..Len(vehicles) : vehicles[n].durability > 0)
    /\ [](fault = NoFault =>
              \A n \in 1..Len(world.vehicle_updates) :
                  world.vehicle_updates[n].durability = 0 =>
                      world.vehicle_updates[n].id \notin DictKeys(vehicles))
    /\ [][\A id \in DictKeys(vehicles') \ DictKeys(vehicles) : id \in Announced(world')]_vars

\* A durability-0 update has removed a unit while another stays tracked
UnitRemoved ==
    /\ fault = NoFault
    /\ vehicles # <<>>
    /\ \E n \in 1..Len(world.vehicle_updates) :
           /\ world.vehicle_updates[n].durability = 0
           /\ world.vehicle_updates[n].id \notin DictKeys(vehicles)
           /\ world.vehicle_updates[n].id \notin CellsHolding(world.vehicle_updates[n].id)

\* update_clusters has run on this tick: the decision pipeline follows it
ClustersFresh == decisions # <<>>

SameCluster(a, b) ==
    \E c \in 1..Len(clusters) : {a, b} \subseteq SeqToSet(clusters[c].vehicles)

\* C3: right after update_clusters, two tracked opponent units whose
\* Euclidean distance is below CELL_SIZE are in the same cluster
CloseUnitsShareCluster ==
    ClustersFresh =>
        \A n \in TrackedOpponents : \A m \in TrackedOpponents :
            Sq(vehicles[n].x - vehicles[m].x) + Sq(vehicles[n].y - vehicles[m].y)
                    < CELL_SIZE * CELL_SIZE
                => SameCluster(vehicles[n].id, vehicles[m].id)

\* Two units closer than CELL_SIZE in diagonally adjacent cells share a
\* cluster that a third opponent unit is not part of
DiagonalPairClustered ==
    /\ ClustersFresh
    /\ Len(clusters) >= 2
    /\ \E n \in TrackedOpponents : \E m \in TrackedOpponents :
           /\ vehicles[n].x \div CELL_SIZE # vehicles[m].x \div CELL_SIZE
           /\ vehicles[n].y \div CELL_SIZE # vehicles[m].y \div CELL_SIZE
           /\ Sq(vehicles[n].x - vehicles[m].x) + Sq(vehicles[n].y - vehicles[m].y)
                  < CELL_SIZE * CELL_SIZE
           /\ SameCluster(vehicles[n].id, vehicles[m].id)

-----------------------------------------------------------------------------
(* The action queue *)

\* C4: actions are released in the order of their enqueue: of two executed
\* actions the one enqueued first was executed on an earlier tick, and no
\* action still waiting was enqueued before an executed one
ReleasedInEnqueueOrder ==
    /\ \A i \in 1..Len(executed) : \A j \in 1..Len(executed) :
           executed[i].seq < executed[j].seq => executed[i].tick < executed[j].tick
    /\ \A i \in 1..Len(executed) : \A k \in 1..Len(action_queue) :
           executed[i].seq < action_queue[k].seq

\* Actions of two batches were released, with ticks in between on which
\* nothing could be released
TwoBatchesReleased ==
    /\ Len(executed) >= 3
    /\ \E i \in 1..Len(executed) : \E j \in 1..Len(executed) :
           /\ executed[i].batch < executed[j].batch
           /\ executed[i].tick + 1 < executed[j].tick

\* C5: a tick that finds the queue non-empty and the remaining action
\* cooldown above zero releases nothing, raises no fault and leaves the
\* queue as it was, whether or not next_action_tick has been reached
\* (the tracker did not fail on the tick)
CooldownTickDoesNothing ==
    [][(/\ action_queue # <<>>
        /\ me'.remaining_action_cooldown_ticks > 0
        /\ fault' # "KeyError")
           => /\ fault' = NoFault
              /\ action_queue' = action_queue
              /\ executed' = executed
              /\ move_'.action = None]_vars

\* C6: a tick executes at most one action and populates the command only
\* by executing one; a tick that finds the queue non-empty does not run
\* the decision pipeline, and a tick that finds it empty runs the pipeline
\* and executes nothing
OneActionPerTick ==
    [][/\ Len(executed') <= Len(executed) + 1
       /\ (move_'.action # None => Len(executed') = Len(executed) + 1)
       /\ (action_queue # <<>> => decisions' = <<>> /\ scheduled' = scheduled)
       /\ (action_queue = <<>> => executed' = executed /\ move_'.action = None)
       /\ (action_queue = <<>> /\ fault' # "KeyError" => decisions' # <<>>)]_vars

\* A tick has released one action of a batch and the rest still waits
ActionReleased ==
    /\ fault = NoFault
    /\ move_.action # None
    /\ decisions = <<>>
    /\ action_queue # <<>>
    /\ executed # <<>>
    /\ executed[Len(executed)].tick = world.tick_index

\* The decision makers that enqueued on this tick
Enqueuers(d) == {n \in 1..Len(d) : d[n].enqueued > 0}

\* C7: the queue holds the actions of one batch only (one decision maker,
\* one tick); actions are enqueued only on a tick that finds the queue
\* empty, by one decision maker, and all of them are in the queue when the
\* tick ends; the actions of a batch are released with no action of another
\* batch between them
OneBatchInQueue ==
    /\ [](\A i \in 1..Len(action_queue) : \A j \in 1..Len(action_queue) :
              /\ action_queue[i].tick = action_queue[j].tick
              /\ action_queue[i].by = action_queue[j].by)
    /\ [](\A i \in 1..Len(executed) : \A k \in 1..Len(executed) :
              (i < k /\ executed[i].batch = executed[k].batch) =>
                  \A j \in i..k : executed[j].batch = executed[i].batch
                                      /\ executed[j].by = executed[i].by)
    /\ [][scheduled' # scheduled =>
              /\ action_queue = <<>>
              /\ Cardinality(Enqueuers(decisions')) = 1
              /\ Len(action_queue') = scheduled' - scheduled]_vars

\* The strike batch is being released: its first action is out, the other
\* two wait
StrikeBatchUnderway ==
    /\ Len(action_queue) = 2
    /\ action_queue[1].by = "NuclearStrike"
    /\ executed # <<>>
    /\ executed[Len(executed)].batch = action_queue[1].tick
    /\ executed[Len(executed)].by = "NuclearStrike"

-----------------------------------------------------------------------------
(* The decision pipeline *)

\* C8: on a decision tick the decision makers are offered the turn in the
\* order of decision_makers (NuclearStrike, then SpreadOut); one that
\* returned true enqueued at least one action, one that returned false
\* enqueued none, every one before the last offered returned false, and
\* the queue holds what the claimant enqueued and nothing else
FirstClaimantStopsPipeline ==
    /\ Len(decisions) <= Len(decision_makers)
    /\ decision_makers = <<"NuclearStrike", "SpreadOut">>
    /\ \A n \in 1..Len(decisions) :
           /\ decisions[n].maker = decision_makers[n]
           /\ decisions[n].result = "True" => decisions[n].enqueued >= 1
           /\ decisions[n].result = "False" => decisions[n].enqueued = 0
           /\ n < Len(decisions) => decisions[n].result = "False"
    /\ decisions # <<>> =>
           /\ Len(action_queue) = SeqSum([n \in 1..Len(decisions) |-> decisions[n].enqueued])
           /\ \A k \in 1..Len(action_queue) :
                  /\ action_queue[k].by = decisions[Len(decisions)].maker
                  /\ decisions[Len(decisions)].result = "True"

\* The strike policy claimed the turn and the spread-out policy was not
\* offered it
StrikeClaimedFirst ==
    /\ Len(decisions) = 1
    /\ decisions[1].maker = "NuclearStrike"
    /\ decisions[1].result = "True"
    /\ Len(action_queue) = 3

\* C9: a decision tick on which no own unit is tracked ends without a
\* fault, with every decision maker having declined and the queue empty
NoOwnUnitsIsAPass ==
    (decisions # <<>> /\ my_vehicles(vehicles) = <<>>) =>
        /\ fault = NoFault
        /\ action_queue = <<>>
        /\ \A n \in 1..Len(decisions) : decisions[n].result = "False"

-----------------------------------------------------------------------------
(* The strike *)

OwnUnits == {n \in 1..Len(vehicles) : vehicles[n].player_id = MyId}

\* The nearest cluster of an own unit by the distance to the centre, the
\* first of the list among equally near ones
NearestCluster(u) ==
    clusters[SetMin({c \in 1..Len(clusters) :
                         \A m \in 1..Len(clusters) :
                             ~FracLess(get_squared_distance_to(u, clusters[m]),
                                       get_squared_distance_to(u, clusters[c]))})]

\* The squared distance d * d of an own unit to the nearest opponent unit
\* of its nearest cluster
NearestSquared(u) ==
    SetMin({Sq(u.x - vehicles[n].x) + Sq(u.y - vehicles[n].y) :
                n \in {k \in TrackedOpponents :
                           vehicles[k].id \in SeqToSet(NearestCluster(u).vehicles)}})

\* d < v, for d >= 0 and the effective vision range v >= 0 in tenths
FeasibleStriker(u) == 100 * NearestSquared(u) < Sq(get_true_vehicle_vision_range(u))

\* The strike policy got as far as looking for a striker on this tick
StrikeConsidered ==
    /\ decisions # <<>>
    /\ me.remaining_nuclear_strike_cooldown_ticks = 0
    /\ clusters # <<>>

\* C10: the strike policy claims the turn exactly when some own unit has
\* d < v, for its effective vision range v and its distance d to the nearest
\* opponent unit of its nearest cluster; the striker it names is such a
\* unit; and when d >= v for every own unit it declines and enqueues nothing
StrictStrikeBoundary ==
    StrikeConsidered =>
        /\ decisions[1].maker = "NuclearStrike"
        /\ decisions[1].result = "True" <=> \E n \in OwnUnits : FeasibleStriker(vehicles[n])
        /\ decisions[1].result = "True" =>
               /\ Len(action_queue) = 3
               /\ action_queue[3].kind = "nuclear_strike"
               /\ \E n \in OwnUnits :
                      /\ vehicles[n].id = action_queue[3].args.vehicle_id
                      /\ FeasibleStriker(vehicles[n])
        /\ (\A n \in OwnUnits : ~FeasibleStriker(vehicles[n])) =>
               /\ decisions[1].result = "False"
               /\ decisions[1].enqueued = 0
               /\ \A k \in 1..Len(action_queue) : action_queue[k].by # "NuclearStrike"

\* An own unit stands exactly at d = v from its target, in a column where
\* the factor is below 1, and the strike policy declined
DeclinedAtTheBoundary ==
    /\ StrikeConsidered
    /\ decisions[1].result = "False"
    /\ \E n \in OwnUnits :
           /\ 100 * NearestSquared(vehicles[n]) = Sq(get_true_vehicle_vision_range(vehicles[n]))
           /\ get_true_vehicle_vision_range(vehicles[n]) < 10 * vehicles[n].vision_range

-----------------------------------------------------------------------------
(* The clusters *)

\* The member sets of a cluster list
Partition(cl) == {SeqToSet(cl[n].vehicles) : n \in 1..Len(cl)}

\* The cells the members of a cluster lie in
CellsOf(c) == {key \in DOMAIN cells : SeqToSet(cells[key]) \cap SeqToSet(c.vehicles) # {}}

\* C11: for the grid index a decision tick clusters, update_clusters yields
\* the same partition of the opponent units for every order in which the
\* seed cells are popped, and the cluster list of the tick has that partition
SeedOrderIsImmaterial ==
    ClustersFresh =>
        \A o \in SeedOrders(cells) :
            Partition(update_clusters(vehicles, cells, o)) = Partition(clusters)

\* Two seed orders give different cluster lists with the same partition,
\* one of whose clusters spans several cells
SeedOrdersDiffer ==
    /\ ClustersFresh
    /\ \E n \in 1..Len(clusters) : Cardinality(CellsOf(clusters[n])) >= 2
    /\ \E o1 \in SeedOrders(cells) : \E o2 \in SeedOrders(cells) :
           /\ update_clusters(vehicles, cells, o1) # update_clusters(vehicles, cells, o2)
           /\ Partition(update_clusters(vehicles, cells, o1))
                  = Partition(update_clusters(vehicles, cells, o2))

\* How often the id occurs in the cluster list
TimesClustered(id) ==
    SeqSum([n \in 1..Len(clusters) |->
                Cardinality({k \in 1..Len(clusters[n].vehicles) :
                                 clusters[n].vehicles[k] = id})])

\* C12: right after update_clusters every tracked opponent unit occurs in
\* the cluster list exactly once, no cluster is empty, and every member of
\* a cluster is a tracked opponent unit (no own unit, no removed unit)
ClustersPartitionOpponents ==
    ClustersFresh =>
        /\ \A n \in TrackedOpponents : TimesClustered(vehicles[n].id) = 1
        /\ \A n \in 1..Len(clusters) :
               /\ clusters[n].vehicles # <<>>
               /\ \A k \in 1..Len(clusters[n].vehicles) :
                      \E m \in TrackedOpponents : vehicles[m].id = clusters[n].vehicles[k]

\* A later decision tick clusters what is left after unit 3 was removed:
\* two clusters, an own unit tracked beside them
ReclusteredAfterRemoval ==
    /\ ClustersFresh
    /\ world.tick_index > 0
    /\ executed # <<>>
    /\ 3 \notin DictKeys(vehicles)
    /\ {2, 4} \subseteq DictKeys(vehicles)
    /\ my_vehicles(vehicles) # <<>>
    /\ Len(clusters) = 2

\* The member counts of a cluster list
Sizes(cl) == [n \in 1..Len(cl) |-> Len(cl[n].vehicles)]

\* sorted is the list found, reordered so that sizes never increase and
\* clusters of one size keep the order they have in found
StablyOrdered(found, sorted) ==
    /\ Len(sorted) = Len(found)
    /\ \A n \in 1..(Len(sorted) - 1) : Len(sorted[n].vehicles) >= Len(sorted[n + 1].vehicles)
    /\ \A n \in 1..Len(found) : \E m \in 1..Len(sorted) : sorted[m] = found[n]
    /\ \A n \in 1..Len(found) : \A m \in 1..Len(found) :
           (n < m /\ Len(found[n].vehicles) = Len(found[m].vehicles)) =>
               \E i \in 1..Len(sorted) : \E j \in 1..Len(sorted) :
                   i < j /\ sorted[i] = found[n] /\ sorted[j] = found[m]

\* C13: the cluster list is ordered most-populous first, and clusters of
\* equal member count keep the order in which split_opponent_vehicles found
\* them, whatever that order was
ClustersOrderedBySize ==
    ClustersFresh =>
        /\ \A n \in 1..(Len(clusters) - 1) :
               Len(clusters[n].vehicles) >= Len(clusters[n + 1].vehicles)
        /\ \A o \in SeedOrders(cells) :
               StablyOrdered(split_opponent_vehicles(vehicles, cells, o),
                             update_clusters(vehicles, cells, o))
        /\ \E o \in SeedOrders(cells) : clusters = update_clusters(vehicles, cells, o)

\* The smaller cluster was found first and the sort moved it behind the
\* larger one; for another seed order nothing had to move
SmallerClusterFoundFirst ==
    /\ ClustersFresh
    /\ Sizes(clusters) = <<2, 1>>
    /\ \E o \in SeedOrders(cells) :
           /\ Sizes(split_opponent_vehicles(vehicles, cells, o)) = <<1, 2>>
           /\ clusters = update_clusters(vehicles, cells, o)

\* C14: every id held by a grid cell is the id of a tracked opponent unit:
\* own units are not in the grid, neither when announced nor when updated,
\* and a unit removed by a durability-0 update has left the grid
GridHoldsOnlyTrackedOpponents ==
    \A key \in DOMAIN cells : \A k \in 1..Len(cells[key]) :
        \E n \in 1..Len(vehicles) :
            /\ vehicles[n].id = cells[key][k]
            /\ vehicles[n].player_id = opponent_player_id

\* An update has moved the own unit into the cell of an opponent unit,
\* and the cell holds the opponent unit alone
OwnUnitMovedAmongOpponents ==
    /\ fault = NoFault
    /\ \E n \in OwnUnits :
           /\ vehicles[n].id \in moving_vehicles
           /\ \E u \in SeqToSet(world.vehicle_updates) : u.id = vehicles[n].id
           /\ <<vehicles[n].x \div CELL_SIZE, vehicles[n].y \div CELL_SIZE>> \in DOMAIN cells
           /\ vehicles[n].id \notin
                  SeqToSet(cells[<<vehicles[n].x \div CELL_SIZE, vehicles[n].y \div CELL_SIZE>>])

\* The tracked opponent units (as indices of the unit table) of a cluster
UnitsOf(c) == {n \in TrackedOpponents : vehicles[n].id \in SeqToSet(c.vehicles)}

\* Two units are closer than CELL_SIZE, or, if viaCell, share a grid cell
Linked(a, b, viaCell) ==
    \/ Sq(vehicles[a].x - vehicles[b].x) + Sq(vehicles[a].y - vehicles[b].y)
           < CELL_SIZE * CELL_SIZE
    \/ /\ viaCell
       /\ vehicles[a].x \div CELL_SIZE = vehicles[b].x \div CELL_SIZE
       /\ vehicles[a].y \div CELL_SIZE = vehicles[b].y \div CELL_SIZE

\* The units of `among` that a chain of links within `among` reaches from S
RECURSIVE ChainFrom(_, _, _)
ChainFrom(S, among, viaCell) ==
    IF S = S \cup {b \in among : \E a \in S : Linked(a, b, viaCell)} THEN S
    ELSE ChainFrom(S \cup {b \in among : \E a \in S : Linked(a, b, viaCell)},
                   among, viaCell)

\* Any two units of the cluster are joined by a chain of its units
Chained(c, viaCell) ==
    \A a \in UnitsOf(c) : ChainFrom({a}, UnitsOf(c), viaCell) = UnitsOf(c)

\* C15 as stated: any two units of a cluster are joined by a chain of units
\* of the cluster whose consecutive distances are all below CELL_SIZE
ClustersAreDistanceChains ==
    ClustersFresh => \A n \in 1..Len(clusters) : Chained(clusters[n], FALSE)

\* C15, amended: any two units of a cluster are joined by a chain of units
\* of the cluster in which consecutive units share a grid cell or are
\* closer than CELL_SIZE
ClustersAreCellOrDistanceChains ==
    ClustersFresh => \A n \in 1..Len(clusters) : Chained(clusters[n], TRUE)

\* A cluster of units that share a cell and that no chain of distances
\* below CELL_SIZE joins
CellMatesFarApart ==
    /\ ClustersFresh
    /\ \E n \in 1..Len(clusters) :
           /\ Cardinality(CellsOf(clusters[n])) = 1
           /\ ~Chained(clusters[n], FALSE)
           /\ Chained(clusters[n], TRUE)

\* C16: the cluster list a decision maker reads is the clustering of the
\* grid as the deltas of the current tick left it; the list changes only on
\* a tick that finds the queue empty, and such a tick is the one that runs
\* the decision pipeline
ClustersAreCurrentWhenRead ==
    /\ [](decisions # <<>> =>
              \E o \in SeedOrders(cells) : clusters = update_clusters(vehicles, cells, o))
    /\ [][/\ clusters' # clusters => action_queue = <<>>
          /\ action_queue # <<>> => decisions' = <<>>
          /\ (action_queue = <<>> /\ fault' # "KeyError") => decisions' # <<>>]_vars

\* On a later decision tick the strike policy reads clusters that hold
\* unit 2 where the update of this very tick has moved it
MovedUnitReclustered ==
    /\ world.tick_index >= 7
    /\ decisions # <<>>
    /\ decisions[1].maker = "NuclearStrike"
    /\ me.remaining_nuclear_strike_cooldown_ticks = 0
    /\ 2 \in moving_vehicles
    /\ \E u \in SeqToSet(world.vehicle_updates) : u.id = 2
    /\ \E n \in 1..Len(clusters) :
           /\ 2 \in SeqToSet(clusters[n].vehicles)
           /\ Len(clusters[n].vehicles) >= 2
           /\ clusters[n] = Cluster(vehicles, clusters[n].vehicles)

-----------------------------------------------------------------------------
(* The choice of the strike *)

\* The opponent unit of its nearest cluster that is nearest to the own
\* unit u
NearestOpponent(u) ==
    vehicles[CHOOSE n \in UnitsOf(NearestCluster(u)) :
                 \A m \in UnitsOf(NearestCluster(u)) :
                     Sq(u.x - vehicles[n].x) + Sq(u.y - vehicles[n].y)
                         <= Sq(u.x - vehicles[m].x) + Sq(u.y - vehicles[m].y)]

\* The squared distance of the target of u to the centre of its cluster
TargetOffset(u) == get_squared_distance_to(NearestOpponent(u), NearestCluster(u))

\* No feasible candidate is preferable to that of the own unit s: none has
\* a larger cluster, and none with a cluster as large has its target nearer
\* to the centre of the cluster
Preferred(s) ==
    \A n \in OwnUnits :
        FeasibleStriker(vehicles[n]) =>
            /\ Len(NearestCluster(vehicles[n]).vehicles) <= Len(NearestCluster(s).vehicles)
            /\ Len(NearestCluster(vehicles[n]).vehicles) = Len(NearestCluster(s).vehicles)
                   => ~FracLess(TargetOffset(vehicles[n]), TargetOffset(s))

\* The queue holds select-striker, move by zero, strike at the target of s
StrikeQueued(s) ==
    /\ Len(action_queue) = 3
    /\ action_queue[1].kind = "select"
    /\ action_queue[1].args =
           [vehicle_type |-> s.type,
            left |-> <<s.x - s.radius>>, top |-> <<s.y - s.radius>>,
            right |-> <<s.x + s.radius>>, bottom |-> <<s.y + s.radius>>]
    /\ action_queue[2].kind = "go"
    /\ action_queue[2].args.x = 0
    /\ action_queue[2].args.y = 0
    /\ action_queue[3].kind = "nuclear_strike"
    /\ action_queue[3].args =
           [vehicle_id |-> s.id, x |-> NearestOpponent(s).x, y |-> NearestOpponent(s).y]

StrikeClaimed ==
    /\ decisions # <<>>
    /\ decisions[1].maker = "NuclearStrike"
    /\ decisions[1].result = "True"

\* C17: when the strike policy claims the turn it has enqueued exactly three
\* actions, select-striker, move by the zero offset and the strike at the
\* target's position with the striker's id, for a feasible candidate whose
\* cluster is the largest among the feasible candidates and whose target is,
\* among those, the nearest to the centre of its cluster
LargestClusterCoreIsStruck ==
    StrikeClaimed =>
        /\ decisions[1].enqueued = 3
        /\ \E n \in OwnUnits :
               /\ FeasibleStriker(vehicles[n])
               /\ Preferred(vehicles[n])
               /\ StrikeQueued(vehicles[n])

\* Both own units are feasible strikers of the same cluster of three, and
\* the second is chosen because its target is nearer to the centre
SecondStrikerPreferred ==
    /\ StrikeClaimed
    /\ Sizes(clusters) = <<3>>
    /\ \A n \in OwnUnits : FeasibleStriker(vehicles[n])
    /\ \E n \in OwnUnits : \E m \in OwnUnits :
           /\ vehicles[n].id < vehicles[m].id
           /\ FracLess(TargetOffset(vehicles[m]), TargetOffset(vehicles[n]))
           /\ StrikeQueued(vehicles[m])

-----------------------------------------------------------------------------
(* Faults and timing of the queue *)

\* An update of the snapshot w names an id that is neither tracked nor
\* announced by w
UnknownUpdate(w) ==
    \E n \in 1..Len(w.vehicle_updates) :
        w.vehicle_updates[n].id \notin DictKeys(vehicles) \cup Announced(w)

\* C18: a tick whose update names an id the unit table does not hold ends
\* in the KeyError of update_vehicles: the unit is not inserted, nothing is
\* released, nothing is enqueued and no decision maker runs
UnknownUpdateIsFatal ==
    [][UnknownUpdate(world') =>
           /\ fault' = "KeyError"
           /\ action_queue' = action_queue
           /\ executed' = executed
           /\ scheduled' = scheduled
           /\ decisions' = <<>>
           /\ move_'.action = None
           /\ \A n \in 1..Len(world'.vehicle_updates) :
                  world'.vehicle_updates[n].id \notin DictKeys(vehicles) \cup Announced(world')
                      => world'.vehicle_updates[n].id \notin DictKeys(vehicles')]_vars

\* An update of a unit that is no longer tracked has ended the engine
\* while actions were waiting and the freeze timer had expired
UnknownUpdateStruck ==
    /\ fault = "KeyError"
    /\ action_queue # <<>>
    /\ executed # <<>>
    /\ next_action_tick <= world.tick_index
    /\ move_.action = None
    /\ \E n \in 1..Len(world.vehicle_updates) :
           world.vehicle_updates[n].id \notin DictKeys(vehicles)

\* C19: any two released actions are at least 5 ticks apart
ReleasesFiveTicksApart ==
    \A i \in 1..Len(executed) : \A j \in 1..Len(executed) :
        i < j => executed[j].tick >= executed[i].tick + 5

\* The last action of a batch and the first of the next one were released
\* exactly 5 ticks apart, the decision in between
NextBatchAfterFiveTicks ==
    \E i \in 1..(Len(executed) - 1) :
        /\ executed[i + 1].batch > executed[i].tick
        /\ executed[i + 1].tick = executed[i].tick + 5

\* The tick on which the head of the queue became the head: the tick of its
\* enqueue, or the tick its predecessor was released if that came later
HeadSince ==
    IF executed # <<>> /\ executed[Len(executed)].tick >= action_queue[1].tick
    THEN executed[Len(executed)].tick
    ELSE action_queue[1].tick

\* C20: every action ever enqueued is in the queue or was executed; the
\* queue shrinks only by the release of its head; with the action cooldown
\* at zero the head never waits 5 ticks; and a queue of k actions is
\* released to the last one if 5 * k more ticks are to come
NoActionIsLost ==
    /\ [](scheduled = Len(executed) + Len(action_queue))
    /\ [][Len(action_queue') < Len(action_queue) =>
              /\ action_queue' = Tail(action_queue)
              /\ Len(executed') = Len(executed) + 1
              /\ executed'[Len(executed')].seq = Head(action_queue).seq
              /\ move_'.action # None]_vars
    /\ []((fault = NoFault /\ action_queue # <<>>) => world.tick_index - HeadSince < 5)
    /\ (action_queue # <<>> /\ world.tick_index + 5 * Len(action_queue) <= LiveTicks)
           ~> (action_queue = <<>> /\ Len(executed) = scheduled)

\* Two batches were enqueued and every action of both has been released
AllReleased ==
    /\ fault = NoFault
    /\ action_queue = <<>>
    /\ scheduled >= 4
    /\ Len(executed) = scheduled
    /\ \E i \in 1..Len(executed) : executed[i].batch > 0

=============================================================================
